---- MODULE Spec2Model ----
(***************************************************************************)
(* DZAIR Sales & Profit Manager (src/main.py): the SQLite ledger           *)
(* (Clients, Products, Sales, SponsoredFees), the formula engine, the      *)
(* invoice sequencer, the Tk handlers that write to the ledger and those   *)
(* that show it: the filtered Sales tab, its export and the Dashboard.     *)
(*                                                                         *)
(* Text (entry contents, invoice numbers, dates) is a sequence of          *)
(* one-character strings, so that formatting and parsing are computed.     *)
(* Money and weights are integers: the handlers read them with float(),    *)
(* and every input of the model is an integer-valued decimal text.         *)
(***************************************************************************)
EXTENDS Integers, Sequences, FiniteSets, TLC

\* ---- bounds of the model ----
MaxClients == 2
MaxProducts == 2
MaxSales == 2
MaxFees == 1
\* the Sales rows of a dzair.db that earlier runs of the program have filled
HistoryLen == 999

\* ---- the ledger ----
\* Apps: the running instances of the program; each holds its own connection
\* to the same dzair.db (main.py 30, 101-102).
Apps == {"a1", "a2"}
MainApp == "a1"

VARIABLES
    Clients,        \* table Clients, by client_id, as the connections read it
    Products,       \* table Products, by product_id
    Sales,          \* table Sales, by sale_id (insertion order)
    Fees,           \* table SponsoredFees, by fee_id
    disk,           \* the four tables as of the last commit
    today,          \* index in Dates of datetime.now()
    client_map,     \* self.client_map of each app: the client ids of its combobox
    product_map,    \* self.product_map of each app
    pending,        \* an add_sale between its reads and its INSERT (two writers)
    result,         \* how each app's last add_sale ended: its message box or exception
    stock_created,  \* history: the stock_qty each product was inserted with
    sales_at_start, \* history: the number of Sales rows dzair.db held at start-up
    delivery_entries, \* history: the Delivery entry each Sales row was inserted with
    entries,        \* the Search, From and To entries of each app's toolbar
    sales_tree,     \* self.sales_tree of each app: the sale_id of each row of its Sales
                    \* tab, top row first (the other columns are those of the Sales row)
    export_file,    \* the spreadsheet each app's export of the filtered sales wrote:
                    \* the sale_id of each of its rows
    date_error,     \* the Date Error box of each app's last listing, "" without one
    dashboard       \* the labels and the chart rows of each app's Dashboard tab

\* what the handlers of the ledger leave alone
viewvars == <<entries, export_file, dashboard>>

vars == <<Clients, Products, Sales, Fees, disk, today, client_map, product_map,
          pending, result, stock_created, sales_at_start, delivery_entries,
          entries, sales_tree, export_file, date_error, dashboard>>

\* ---- text ----
DigitChars == <<"0", "1", "2", "3", "4", "5", "6", "7", "8", "9">>

IsDigit(c) == \E i \in 1..10 : DigitChars[i] = c

DigitVal(c) == (CHOOSE i \in 1..10 : DigitChars[i] = c) - 1

\* str(n) of a natural number n
RECURSIVE Dec(_)
Dec(n) == IF n < 10 THEN <<DigitChars[n + 1]>>
          ELSE Dec(n \div 10) \o <<DigitChars[(n % 10) + 1]>>

RECURSIVE Zeros(_)
Zeros(k) == IF k <= 0 THEN <<>> ELSE <<"0">> \o Zeros(k - 1)

\* the last w characters only
ZeroPadCut(n, w) ==
    LET t == Zeros(w - Len(Dec(n))) \o Dec(n)
    IN SubSeq(t, Len(t) - w + 1, Len(t))

\* f"{n:0{w}d}" of a natural number n: zero-padded to at least w characters
ZeroPad(n, w) == Zeros(w - Len(Dec(n))) \o Dec(n)

RECURSIVE DigitsVal(_)
DigitsVal(s) == IF s = <<>> THEN 0
                ELSE 10 * DigitsVal(SubSeq(s, 1, Len(s) - 1)) + DigitVal(s[Len(s)])

AllDigits(s) == s # <<>> /\ \A i \in 1..Len(s) : IsDigit(s[i])

\* int(text): an optional sign and at least one digit, anything else raises
\* ValueError (ok = FALSE).  float(text) is the same on the integer-valued
\* texts of the model.
int(s) ==
    IF AllDigits(s) THEN [ok |-> TRUE, val |-> DigitsVal(s)]
    ELSE IF Len(s) >= 2 /\ s[1] = "-" /\ AllDigits(Tail(s))
         THEN [ok |-> TRUE, val |-> 0 - DigitsVal(Tail(s))]
    ELSE IF Len(s) >= 2 /\ s[1] = "+" /\ AllDigits(Tail(s))
         THEN [ok |-> TRUE, val |-> DigitsVal(Tail(s))]
    ELSE [ok |-> FALSE, val |-> 0]

float(s) == int(s)

\* text.split('-')[-1]: what follows the last '-' (the whole text without one)
RECURSIVE LastSegment(_)
LastSegment(s) ==
    IF \A i \in 1..Len(s) : s[i] # "-" THEN s
    ELSE LastSegment(Tail(s))

\* ---- Calculations (main.py 33-40) ----
RatePerKg == 50
FixedDeduction == 500

tot_livraison_per_kg_dropped(weight, delivery_price) == weight + delivery_price

tot_livraison(weight, delivery_price) == (weight * RatePerKg) + delivery_price

p_fayda(selling_price, tot_liv, purchase_price) == (selling_price - tot_liv) - purchase_price

fayda_safia(pf) == pf - FixedDeduction

\* ---- dates ----
\* datetime.now() on the days the model runs through
Dates == << [year |-> 2024, month |-> 12, day |-> 31],
            [year |-> 2025, month |-> 1, day |-> 14] >>

\* strftime("%Y-%m-%d")
strftime(d) == ZeroPad(d.year, 4) \o <<"-">> \o ZeroPad(d.month, 2) \o <<"-">> \o ZeroPad(d.day, 2)

\* datetime.fromisoformat(date_str).year
IsoYear(date_str) == DigitsVal(SubSeq(date_str, 1, 4))

IsLeap(y) == (y % 4 = 0 /\ y % 100 # 0) \/ y % 400 = 0

DaysIn(y, m) == IF m = 2 THEN (IF IsLeap(y) THEN 29 ELSE 28)
                ELSE IF m \in {4, 6, 9, 11} THEN 30 ELSE 31

\* datetime.fromisoformat(text) of a text without a time part: YYYY-MM-DD with
\* a month and a day of the calendar, anything else raises ValueError
fromisoformat(s) ==
    IF /\ Len(s) = 10
       /\ s[5] = "-" /\ s[8] = "-"
       /\ AllDigits(SubSeq(s, 1, 4)) /\ AllDigits(SubSeq(s, 6, 7)) /\ AllDigits(SubSeq(s, 9, 10))
    THEN LET y == DigitsVal(SubSeq(s, 1, 4))
             m == DigitsVal(SubSeq(s, 6, 7))
             d == DigitsVal(SubSeq(s, 9, 10))
         IN IF y >= 1 /\ m \in 1..12 /\ d >= 1 /\ d <= DaysIn(y, m)
            THEN [ok |-> TRUE, year |-> y, month |-> m, day |-> d]
            ELSE [ok |-> FALSE, year |-> 0, month |-> 0, day |-> 0]
    ELSE [ok |-> FALSE, year |-> 0, month |-> 0, day |-> 0]

\* the day before d
PrevDay(d) ==
    IF d.day > 1 THEN [d EXCEPT !.day = @ - 1]
    ELSE IF d.month > 1 THEN [year |-> d.year, month |-> d.month - 1, day |-> DaysIn(d.year, d.month - 1)]
    ELSE [year |-> d.year - 1, month |-> 12, day |-> 31]

RECURSIVE MinusDays(_, _)
MinusDays(d, k) == IF k = 0 THEN d ELSE MinusDays(PrevDay(d), k - 1)

\* SQL NULL
Null == <<"NULL">>

\* SQLite date(text) of a YYYY-MM-DD text: the same date as text, NULL for a
\* text that is no date
sql_date(s) == LET p == fromisoformat(s) IN IF p.ok THEN strftime(p) ELSE Null

\* the characters of a date text in the order of their codes
DateChars == <<"-", "0", "1", "2", "3", "4", "5", "6", "7", "8", "9">>

CharOrd(c) == CHOOSE i \in 1..Len(DateChars) : DateChars[i] = c

\* s <= t as SQLite compares two texts (BINARY collation)
RECURSIVE TextLE(_, _)
TextLE(s, t) ==
    IF s = <<>> THEN TRUE
    ELSE IF t = <<>> THEN FALSE
    ELSE IF s[1] = t[1] THEN TextLE(Tail(s), Tail(t))
    ELSE CharOrd(s[1]) < CharOrd(t[1])

\* a >= b of two SQL values: NULL when either is NULL, and a WHERE drops NULL
SqlGE(a, b) == a # Null /\ b # Null /\ TextLE(b, a)

SqlLE(a, b) == a # Null /\ b # Null /\ TextLE(a, b)

UpperChars == <<"A", "B", "C", "D", "E", "F", "G", "H", "I", "J", "K", "L", "M",
                "N", "O", "P", "Q", "R", "S", "T", "U", "V", "W", "X", "Y", "Z">>
LowerChars == <<"a", "b", "c", "d", "e", "f", "g", "h", "i", "j", "k", "l", "m",
                "n", "o", "p", "q", "r", "s", "t", "u", "v", "w", "x", "y", "z">>

\* the lower case of an ASCII letter, any other character as it is
lower(c) == IF \E i \in 1..26 : UpperChars[i] = c
            THEN LowerChars[CHOOSE i \in 1..26 : UpperChars[i] = c]
            ELSE c

\* text LIKE pattern in SQLite: % is any run of characters, _ any one
\* character, ASCII letters match in either case; NULL LIKE ... is not true
RECURSIVE LikeText(_, _)
LikeText(s, p) ==
    IF p = <<>> THEN s = <<>>
    ELSE IF p[1] = "%" THEN LikeText(s, Tail(p)) \/ (s # <<>> /\ LikeText(Tail(s), p))
    ELSE IF s = <<>> THEN FALSE
    ELSE IF p[1] = "_" THEN LikeText(Tail(s), Tail(p))
    ELSE lower(s[1]) = lower(p[1]) /\ LikeText(Tail(s), Tail(p))

Like(s, p) == s # Null /\ LikeText(s, p)

\* text LIKE 'prefix%' for a prefix without % and _
StartsWith(s, p) ==
    /\ Len(s) >= Len(p)
    /\ \A k \in 1..Len(p) : s[k] = p[k] \/ lower(s[k]) = lower(p[k])

\* ---- Invoice Sequencer (main.py 66-81) ----
Prefix == <<"D", "Z", "A", "I", "R">>
SeqWidth == 3

\* f'DZAIR-{year}-%' without the trailing %
YearPattern(year) == Prefix \o <<"-">> \o Dec(year) \o <<"-">>

generate_invoice_no_any_year(sales, date_str) ==
    LET year == IsoYear(date_str)
        seq == IF sales = <<>> THEN 1
               ELSE LET p == int(LastSegment(sales[Len(sales)].invoice_no))
                    IN IF p.ok THEN p.val + 1 ELSE 1
    IN YearPattern(year) \o ZeroPad(seq, SeqWidth)

\* a sequencer that counts the numbers handed out and not yet inserted
generate_invoice_no_reserving(sales, date_str) ==
    LET year == IsoYear(date_str)
        match == {i \in 1..Len(sales) : StartsWith(sales[i].invoice_no, YearPattern(year))}
        held == {b \in Apps : pending[b].active /\ IsoYear(pending[b].row.date) = year}
        seq == IF match = {} THEN 1
               ELSE LET last == sales[CHOOSE i \in match : \A j \in match : j <= i].invoice_no
                        p == int(LastSegment(last))
                    IN IF p.ok THEN p.val + 1 ELSE 1
    IN YearPattern(year) \o ZeroPad(seq + Cardinality(held), SeqWidth)

\* without the except: the ValueError of int() leaves the sequencer, which
\* returns no identifier
generate_invoice_no_raising(sales, date_str) ==
    LET year == IsoYear(date_str)
        match == {i \in 1..Len(sales) : StartsWith(sales[i].invoice_no, YearPattern(year))}
        last == sales[CHOOSE i \in match : \A j \in match : j <= i].invoice_no
    IN IF match = {} THEN YearPattern(year) \o ZeroPad(1, SeqWidth)
       ELSE IF int(LastSegment(last)).ok
       THEN YearPattern(year) \o ZeroPad(int(LastSegment(last)).val + 1, SeqWidth)
       ELSE <<>>

generate_invoice_no(sales, date_str) ==
    LET year == IsoYear(date_str)
        match == {i \in 1..Len(sales) : StartsWith(sales[i].invoice_no, YearPattern(year))}
        seq == IF match = {} THEN 1
               ELSE LET last == sales[CHOOSE i \in match : \A j \in match : j <= i].invoice_no
                        p == int(LastSegment(last))
                    IN IF p.ok THEN p.val + 1 ELSE 1
    IN YearPattern(year) \o ZeroPad(seq, SeqWidth)

\* ---- results of the handlers ----
NoSale == [active |-> FALSE]

\* found: the client and the product the call named were rows of the tables
Outcome(title, text, found) == [title |-> title, text |-> text, found |-> found]

\* ---- inputs of the forms ----
Txt(n) == Dec(n)

NameTexts == {<<>>, <<"A", "l", "i">>}

ProductForms ==
    { [name |-> <<"P">>, purchase |-> Txt(1000), weight |-> Txt(2), delivery |-> Txt(200),
       selling |-> Txt(3000), stock |-> Txt(1)],
      [name |-> <<"Q">>, purchase |-> Txt(4000), weight |-> Txt(1), delivery |-> <<>>,
       selling |-> Txt(1000), stock |-> <<>>],
      [name |-> <<"R">>, purchase |-> <<>>, weight |-> <<>>, delivery |-> <<>>,
       selling |-> Txt(10), stock |-> <<>>],
      [name |-> <<>>, purchase |-> Txt(1), weight |-> <<>>, delivery |-> <<>>,
       selling |-> Txt(10), stock |-> <<>>] }

\* the product of the specification's scenario: 1000 / 2 / 200 / 3000
ScenarioProduct ==
    [name |-> <<"P">>, purchase |-> Txt(1000), weight |-> Txt(2), delivery |-> Txt(200),
     selling |-> Txt(3000), stock |-> Txt(1)]

ClientKeys == 1..MaxClients
ProductKeys == 1..MaxProducts
\* the Qty, Delivery and Status entries of the sale form
SaleForms ==
    { [qty |-> <<>>, delivery |-> <<>>, status |-> <<>>],
      [qty |-> <<"-", "1">>, delivery |-> <<"0">>, status |-> <<"D", "e", "l", "i", "v", "e", "r", "e", "d">>],
      [qty |-> <<"0">>, delivery |-> <<"-", "1", "0", "0">>, status |-> <<>>],
      [qty |-> <<"2">>, delivery |-> <<"1", "5", "0">>, status |-> <<>>],
      [qty |-> <<"1", ".", "5">>, delivery |-> <<>>, status |-> <<>>],
      [qty |-> <<>>, delivery |-> <<"x">>, status |-> <<>>] }
FeeForms == { [name |-> <<"F">>, platform |-> <<>>, amount |-> Txt(70)],
              [name |-> <<>>, platform |-> <<>>, amount |-> Txt(70)],
              [name |-> <<"F">>, platform |-> <<>>, amount |-> <<>>] }

Cash == <<"C", "a", "s", "h">>
Pending == <<"P", "e", "n", "d", "i", "n", "g">>
Delivered == <<"D", "e", "l", "i", "v", "e", "r", "e", "d">>

\* text or default
OrText(s, d) == IF s = <<>> THEN d ELSE s

DateStr == strftime(Dates[today])

\* ---- Dashboard (main.py 341-358) ----
\* the sum of a sequence of numbers
RECURSIVE SumSeq(_)
SumSeq(s) ==
    IF s = <<>> THEN 0
    ELSE IF Len(s) = 1 THEN s[1]
    ELSE LET h == Len(s) \div 2
         IN SumSeq(SubSeq(s, 1, h)) + SumSeq(SubSeq(s, h + 1, Len(s)))

\* SELECT SUM(col) FROM Sales: NULL over no row
SqlSum(sales, col) ==
    IF sales = <<>> THEN [null |-> TRUE, val |-> 0]
    ELSE [null |-> FALSE, val |-> SumSeq([i \in 1..Len(sales) |-> sales[i][col]])]

\* value or 0
OrZero(v) == IF v.null \/ v.val = 0 THEN 0 ELSE v.val

\* f"{x:.2f}" of an integer-valued x
Fmt2f(x) == (IF x < 0 THEN <<"-">> \o Dec(0 - x) ELSE Dec(x)) \o <<".", "0", "0">>

\* date('now', '-13 days')
WindowBack == 13

\* date('now') is the UTC date: the date of datetime.now(), or east of
\* Greenwich the day before it until UTC reaches midnight
UtcLags == {0, 1}

\* smallest text first
RECURSIVE AscTexts(_)
AscTexts(S) ==
    IF S = {} THEN <<>>
    ELSE LET m == CHOOSE x \in S : \A y \in S : TextLE(x, y)
         IN <<m>> \o AscTexts(S \ {m})

\* SELECT date, SUM(p_fayda) as profit, COUNT(*) as cnt FROM Sales
\* WHERE date >= date('now','-13 days') GROUP BY date ORDER BY date
ChartRows(sales, utc_today) ==
    LET since == strftime(MinusDays(utc_today, WindowBack))
        in == SelectSeq(sales, LAMBDA r : TextLE(since, r.date))
        dates == AscTexts({in[i].date : i \in 1..Len(in)})
    IN [k \in 1..Len(dates) |->
          LET g == SelectSeq(in, LAMBDA r : r.date = dates[k])
          IN [date |-> dates[k],
              profit |-> SumSeq([i \in 1..Len(g) |-> g[i].p_fayda]),
              cnt |-> Len(g)]]

\* what refresh_dashboard shows where matplotlib is installed: the numbers of
\* the three labels as they are formatted, and the rows of the chart's query
DashboardOf(sales, utc_today) ==
    [lbl_sales |-> Dec(Len(sales)),
     lbl_profit |-> Fmt2f(OrZero(SqlSum(sales, "p_fayda"))),
     lbl_delivery |-> Fmt2f(OrZero(SqlSum(sales, "tot_livraison"))),
     rows |-> ChartRows(sales, utc_today)]

NoEntries == [search |-> <<>>, date_from |-> <<>>, date_to |-> <<>>]

NoFile == [path |-> "", rows |-> <<>>]

Init ==
    /\ entries = [a \in Apps |-> NoEntries]
    /\ sales_tree = [a \in Apps |-> <<>>]
    /\ export_file = [a \in Apps |-> NoFile]
    /\ date_error = [a \in Apps |-> ""]
    /\ dashboard = [a \in Apps |-> DashboardOf(<<>>, Dates[1])]
    /\ Clients = <<>>
    /\ Products = <<>>
    /\ Sales = <<>>
    /\ Fees = <<>>
    /\ disk = [Clients |-> <<>>, Products |-> <<>>, Sales |-> <<>>, Fees |-> <<>>]
    /\ today = 1
    /\ client_map = [a \in Apps |-> {}]
    /\ product_map = [a \in Apps |-> {}]
    /\ pending = [a \in Apps |-> NoSale]
    /\ result = [a \in Apps |-> Outcome("", "", TRUE)]
    /\ stock_created = <<>>
    /\ sales_at_start = 0
    /\ delivery_entries = <<>>

\* self.conn.commit(): everything the connection wrote becomes durable
Commit(c, p, s, f) == disk' = [Clients |-> c, Products |-> p, Sales |-> s, Fees |-> f]

\* the clock moves to the next day
Tick ==
    /\ today < Len(Dates)
    /\ today' = today + 1
    /\ UNCHANGED <<Clients, Products, Sales, Fees, disk, client_map, product_map,
                   pending, result, stock_created, sales_at_start, delivery_entries,
                   sales_tree, date_error, viewvars>>

\* ---- Clients (main.py 167-175) ----
add_client(a, name) ==
    /\ ~pending[a].active
    /\ IF name = <<>>
       THEN UNCHANGED <<Clients, disk>>    \* showerror("Validation", "Client name is required.")
       ELSE /\ Len(Clients) < MaxClients
            /\ Clients' = Append(Clients, [name |-> name, total_spent |-> 0, total_orders |-> 0])
            /\ Commit(Clients', Products, Sales, Fees)
    /\ UNCHANGED <<Products, Sales, Fees, today, client_map, product_map, pending, result,
                   stock_created, sales_at_start, delivery_entries, sales_tree, date_error, viewvars>>

\* ---- Products (main.py 202-216) ----
add_product(a, f) ==
    LET purchase == float(f.purchase)
        selling == float(f.selling)
        weight == float(OrText(f.weight, Txt(0)))
        default_del == float(OrText(f.delivery, Txt(0)))
        stock == int(OrText(f.stock, Txt(0)))
    IN
    /\ ~pending[a].active
    /\ IF ~(purchase.ok /\ selling.ok /\ weight.ok /\ default_del.ok /\ stock.ok)
       THEN UNCHANGED <<Products, disk, stock_created>>    \* showerror: numeric values
       ELSE IF f.name = <<>>
       THEN UNCHANGED <<Products, disk, stock_created>>    \* showerror: name required
       ELSE /\ Len(Products) < MaxProducts
            /\ Products' = Append(Products,
                              [name |-> f.name, purchase_price |-> purchase.val, weight |-> weight.val,
                               default_delivery_price |-> default_del.val,
                               selling_price |-> selling.val, stock_qty |-> stock.val])
            /\ stock_created' = Append(stock_created, stock.val)
            /\ Commit(Clients, Products', Sales, Fees)
    /\ UNCHANGED <<Clients, Sales, Fees, today, client_map, product_map, pending, result,
                   sales_at_start, delivery_entries, sales_tree, date_error, viewvars>>

\* ---- Sponsored Fees (main.py 377-384) ----
add_fee(a, f) ==
    LET amt == float(f.amount)
    IN
    /\ ~pending[a].active
    /\ IF f.name = <<>>
       THEN UNCHANGED <<Fees, disk>>    \* showerror: campaign name required
       ELSE IF ~amt.ok
       THEN UNCHANGED <<Fees, disk>>    \* showerror: amount must be numeric
       ELSE /\ Len(Fees) < MaxFees
            /\ Fees' = Append(Fees, [campaign_name |-> f.name, platform |-> f.platform,
                                     amount_spent |-> amt.val, date |-> DateStr])
            /\ Commit(Clients, Products, Sales, Fees')
    /\ UNCHANGED <<Clients, Products, Sales, today, client_map, product_map, pending, result,
                   stock_created, sales_at_start, delivery_entries, sales_tree, date_error, viewvars>>

\* ---- Sales: the combobox maps (main.py 251-259) ----
\* the ids the SELECTs of refresh_sales return from the given tables
LoadMaps(a, clients, products) ==
    /\ client_map' = [client_map EXCEPT ![a] = DOMAIN clients]
    /\ product_map' = [product_map EXCEPT ![a] = DOMAIN products]

\* ---- Sales: the listing (main.py 261-291, 413-432) ----
RECURSIVE lstrip(_)
lstrip(s) == IF s # <<>> /\ s[1] = " " THEN lstrip(Tail(s)) ELSE s

RECURSIVE rstrip(_)
rstrip(s) == IF s # <<>> /\ s[Len(s)] = " " THEN rstrip(SubSeq(s, 1, Len(s) - 1)) ELSE s

\* text.strip()
strip(s) == rstrip(lstrip(s))

\* C.name / P.name of the LEFT JOIN: NULL without a row of that id
JoinName(tbl, id) == IF id \in DOMAIN tbl THEN tbl[id].name ELSE Null

\* The query refresh_sales and export_filtered_excel build from the entries e
\* and run: the message of the Date Error box they return on ("" without
\* one), and the sale_ids the SELECT returns, in its order.
ListQuery(e, clients, products, sales) ==
    LET s == strip(e.search)
        df == strip(e.date_from)
        dt == strip(e.date_to)
        sparam == <<"%">> \o s \o <<"%">>
        Where(i) ==
            /\ s # <<>> =>
                  \/ Like(JoinName(clients, sales[i].client_id), sparam)
                  \/ Like(JoinName(products, sales[i].product_id), sparam)
                  \/ Like(sales[i].invoice_no, sparam)
                  \/ Like(sales[i].status, sparam)
            /\ df # <<>> => SqlGE(sql_date(sales[i].date), sql_date(df))
            /\ dt # <<>> => SqlLE(sql_date(sales[i].date), sql_date(dt))
        desc == [k \in 1..Len(sales) |-> Len(sales) + 1 - k]
    IN IF df # <<>> /\ ~fromisoformat(df).ok
       THEN [error |-> "From date must be YYYY-MM-DD", ids |-> <<>>]
       ELSE IF dt # <<>> /\ ~fromisoformat(dt).ok
       THEN [error |-> "To date must be YYYY-MM-DD", ids |-> <<>>]
       ELSE [error |-> "", ids |-> SelectSeq(desc, Where)]

\* the tree is cleared before the bounds are looked at
ListIntoCleared(a, clients, products, sales) ==
    LET q == ListQuery(entries[a], clients, products, sales)
    IN /\ date_error' = [date_error EXCEPT ![a] = q.error]
       /\ sales_tree' = [sales_tree EXCEPT ![a] = q.ids]

\* refresh_sales from its query on (main.py 261-291): a Date Error box returns
\* before the tree is cleared
ListInto(a, clients, products, sales) ==
    LET q == ListQuery(entries[a], clients, products, sales)
    IN /\ date_error' = [date_error EXCEPT ![a] = q.error]
       /\ sales_tree' = IF q.error # "" THEN sales_tree
                        ELSE [sales_tree EXCEPT ![a] = q.ids]

\* the whole of refresh_sales on the given tables (main.py 251-291)
Refresh(a, clients, products, sales) ==
    /\ LoadMaps(a, clients, products)
    /\ ListInto(a, clients, products, sales)

refresh_sales(a) ==
    /\ ~pending[a].active
    /\ Refresh(a, Clients, Products, Sales)
    /\ UNCHANGED <<Clients, Products, Sales, Fees, disk, today, pending, result, stock_created,
                   sales_at_start, delivery_entries, viewvars>>

\* the user types into the Search, From and To entries (main.py 119-129)
type_filters(a, e) ==
    /\ ~pending[a].active
    /\ entries' = [entries EXCEPT ![a] = e]
    /\ UNCHANGED <<Clients, Products, Sales, Fees, disk, today, client_map, product_map, pending,
                   result, stock_created, sales_at_start, delivery_entries,
                   sales_tree, export_file, date_error, dashboard>>

\* export_filtered_excel (main.py 413-432); chosen: the file dialog returned a path
export_filtered_excel(a, chosen) ==
    LET q == ListQuery(entries[a], Clients, Products, Sales)
    IN
    /\ ~pending[a].active
    /\ IF ~chosen
       THEN UNCHANGED <<export_file, date_error>>
       ELSE /\ date_error' = [date_error EXCEPT ![a] = q.error]
            /\ export_file' = IF q.error # "" THEN export_file
                              ELSE [export_file EXCEPT ![a] = [path |-> "sales.xlsx", rows |-> q.ids]]
    /\ UNCHANGED <<Clients, Products, Sales, Fees, disk, today, client_map, product_map, pending,
                   result, stock_created, sales_at_start, delivery_entries,
                   entries, sales_tree, dashboard>>

\* refresh_dashboard (main.py 341-358); lag: how many days the UTC date is
\* behind the date of datetime.now()
refresh_dashboard(a, lag) ==
    /\ ~pending[a].active
    /\ dashboard' = [dashboard EXCEPT ![a] = DashboardOf(Sales, MinusDays(Dates[today], lag))]
    /\ UNCHANGED <<Clients, Products, Sales, Fees, disk, today, client_map, product_map, pending,
                   result, stock_created, sales_at_start, delivery_entries,
                   entries, sales_tree, export_file, date_error>>

\* ---- Sales: add_sale (main.py 293-320) ----
\* client_key in self.client_map and prod_key in self.product_map
KeysValidProductOnly(a, ck, pk) == pk \in product_map[a]

KeysValid(a, ck, pk) == ck \in client_map[a] /\ pk \in product_map[a]

\* float(text) if text.strip() else None, then the product's default for None
EffectiveDelivery(text, default_del) == IF text = <<>> THEN default_del ELSE float(text).val

\* the values of the INSERT INTO Sales
SaleRow(cid, pid, qty, delText, payText, statusText, products, sales, date_str) ==
    LET prod == products[pid]
        purchase_price == prod.purchase_price
        weight == prod.weight
        default_del == prod.default_delivery_price
        selling_price == prod.selling_price
        delivery_price == EffectiveDelivery(delText, default_del)
        tot_liv == tot_livraison(weight, delivery_price)
        pf == p_fayda(selling_price, tot_liv, purchase_price)
        fs == fayda_safia(pf)
        status == OrText(statusText, Pending)
    IN [invoice_no |-> generate_invoice_no(sales, date_str),
        client_id |-> cid, product_id |-> pid, quantity |-> qty,
        purchase_price |-> purchase_price, selling_price |-> selling_price,
        weight |-> weight, delivery_price |-> delivery_price,
        tot_livraison |-> tot_liv, p_fayda |-> pf, fayda_safia |-> fs,
        payment_method |-> OrText(payText, Cash), status |-> status,
        paid |-> IF status = Delivered THEN 1 ELSE 0, date |-> date_str]

\* invoice_no TEXT UNIQUE (main.py 58)
UniqueOK(sales, row) == \A i \in 1..Len(sales) : sales[i].invoice_no # row.invoice_no

\* UPDATE Clients SET total_spent = total_spent + ?, total_orders = total_orders + 1
ClientUpdateUnitPrice(clients, cid, selling_price, qty) ==
    [i \in DOMAIN clients |->
        IF i = cid THEN [clients[i] EXCEPT !.total_spent = @ + selling_price,
                                           !.total_orders = @ + 1]
        ELSE clients[i]]

ClientUpdate(clients, cid, selling_price, qty) ==
    [i \in DOMAIN clients |->
        IF i = cid THEN [clients[i] EXCEPT !.total_spent = @ + (selling_price * qty),
                                           !.total_orders = @ + 1]
        ELSE clients[i]]

\* UPDATE Products SET stock_qty = stock_qty - ?
StockUpdateFloored(products, pid, qty) ==
    [i \in DOMAIN products |->
        IF i = pid THEN [products[i] EXCEPT !.stock_qty = IF @ - qty < 0 THEN 0 ELSE @ - qty]
        ELSE products[i]]

StockUpdate(products, pid, qty) ==
    [i \in DOMAIN products |->
        IF i = pid THEN [products[i] EXCEPT !.stock_qty = @ - qty]
        ELSE products[i]]

\* The statements of add_sale from the INSERT on (main.py 317-320).  fail = 0: no
\* statement raises; fail = 1..4: the INSERT, the UPDATE Clients, the UPDATE
\* Products or the commit raises sqlite3.OperationalError.  The exception leaves
\* add_sale: nothing rolls back what the connection has written, nothing commits.
WriteSale(a, row, entry, found, fail) ==
    LET s1 == Append(Sales, row)
        c1 == ClientUpdate(Clients, row.client_id, row.selling_price, row.quantity)
        p1 == StockUpdate(Products, row.product_id, row.quantity)
    IN
    IF ~UniqueOK(Sales, row)
    THEN /\ result' = [result EXCEPT ![a] = Outcome("IntegrityError", "UNIQUE constraint failed: Sales.invoice_no", found)]
         /\ UNCHANGED <<Clients, Products, Sales, disk, client_map, product_map, delivery_entries,
                        sales_tree, date_error>>
    ELSE IF fail = 0
    THEN /\ Sales' = s1
         /\ Clients' = c1
         /\ Products' = p1
         /\ Commit(c1, p1, s1, Fees)
         /\ delivery_entries' = Append(delivery_entries, entry)
         /\ result' = [result EXCEPT ![a] = Outcome("Sale Added", "Invoice", found)]
         /\ Refresh(a, c1, p1, s1)
    ELSE /\ Sales' = (IF fail >= 2 THEN s1 ELSE Sales)
         /\ Clients' = (IF fail >= 3 THEN c1 ELSE Clients)
         /\ Products' = (IF fail >= 4 THEN p1 ELSE Products)
         /\ delivery_entries' = (IF fail >= 2 THEN Append(delivery_entries, entry) ELSE delivery_entries)
         /\ result' = [result EXCEPT ![a] = Outcome("OperationalError", "", found)]
         /\ UNCHANGED <<disk, client_map, product_map, sales_tree, date_error>>

\* messagebox.showerror(title, text); return
Reject(a, title, text, found) ==
    /\ result' = [result EXCEPT ![a] = Outcome(title, text, found)]
    /\ UNCHANGED <<Clients, Products, Sales, disk, client_map, product_map, delivery_entries,
                   sales_tree, date_error>>

\* add_sale up to its SELECT of the product (main.py 294-312): the message box
\* it returns on, or an empty title when it goes on to write
Validate(a, ck, pk, f) ==
    IF ~KeysValid(a, ck, pk)
    THEN [title |-> "Validation", text |-> "Select valid client and product"]
    ELSE IF ~int(OrText(f.qty, Txt(1))).ok
    THEN [title |-> "Validation", text |-> "Quantity must be integer"]
    ELSE IF ~float(OrText(f.delivery, Txt(0))).ok
    THEN [title |-> "Validation", text |-> "Delivery must be numeric"]
    ELSE IF pk \notin DOMAIN Products
    THEN [title |-> "Error", text |-> "Product not found"]
    ELSE [title |-> "", text |-> ""]

\* the row add_sale computes from what it reads now (main.py 305-316)
RowNow(ck, pk, f) ==
    SaleRow(ck, pk, int(OrText(f.qty, Txt(1))).val, f.delivery, <<>>, f.status, Products, Sales, DateStr)

Found(ck, pk) == ck \in DOMAIN Clients /\ pk \in DOMAIN Products

\* the whole handler, run without another writer in between
add_sale(a, ck, pk, f, fail) ==
    LET v == Validate(a, ck, pk, f)
    IN
    /\ ~pending[a].active
    /\ IF v.title # ""
       THEN Reject(a, v.title, v.text, Found(ck, pk))
       ELSE /\ Len(Sales) < sales_at_start + MaxSales
            /\ WriteSale(a, RowNow(ck, pk, f), f.delivery, Found(ck, pk), fail)
    /\ UNCHANGED <<Fees, today, pending, stock_created, sales_at_start, viewvars>>

\* the handler of an app that shares dzair.db with another one, in two steps:
\* its reads, generate_invoice_no included (main.py 294-316), ...
add_sale_read(a, ck, pk, f) ==
    LET v == Validate(a, ck, pk, f)
    IN
    /\ ~pending[a].active
    /\ IF v.title # ""
       THEN /\ Reject(a, v.title, v.text, Found(ck, pk))
            /\ UNCHANGED pending
       ELSE /\ Len(Sales) < sales_at_start + MaxSales
            /\ pending' = [pending EXCEPT ![a] = [active |-> TRUE, row |-> RowNow(ck, pk, f),
                                                  entry |-> f.delivery, found |-> Found(ck, pk)]]
            /\ UNCHANGED <<Clients, Products, Sales, disk, client_map, product_map,
                           delivery_entries, result, sales_tree, date_error>>
    /\ UNCHANGED <<Fees, today, stock_created, sales_at_start, viewvars>>

\* ... and its transaction: the INSERT takes the write lock of the file, the
\* commit releases it (main.py 317-320)
add_sale_write(a) ==
    /\ pending[a].active
    /\ WriteSale(a, pending[a].row, pending[a].entry, pending[a].found, 0)
    /\ pending' = [pending EXCEPT ![a] = NoSale]
    /\ UNCHANGED <<Fees, today, stock_created, sales_at_start, viewvars>>

\* ---- one app, no failing statement ----
Next ==
    \/ Tick
    \/ \E name \in NameTexts : add_client(MainApp, name)
    \/ \E f \in ProductForms : add_product(MainApp, f)
    \/ \E f \in FeeForms : add_fee(MainApp, f)
    \/ refresh_sales(MainApp)
    \/ \E ck \in ClientKeys, pk \in ProductKeys, f \in SaleForms : add_sale(MainApp, ck, pk, f, 0)

Spec == Init /\ [][Next]_vars

\* ---- one app, statements of add_sale that raise ----
DefaultForm == [qty |-> <<>>, delivery |-> <<>>, status |-> <<>>]
FaultForms == {DefaultForm}
FailPoints == 0..4

NextFault ==
    \/ Tick
    \/ \E name \in NameTexts : add_client(MainApp, name)
    \/ \E f \in ProductForms : add_product(MainApp, f)
    \/ \E f \in FeeForms : add_fee(MainApp, f)
    \/ refresh_sales(MainApp)
    \/ \E ck \in ClientKeys, pk \in ProductKeys, f \in FaultForms, fail \in FailPoints :
          add_sale(MainApp, ck, pk, f, fail)

SpecFault == Init /\ [][NextFault]_vars

\* ---- one app started on the dzair.db of earlier runs ----
\* init_db creates the tables only if they do not exist (main.py 48-64): the
\* program starts on what its earlier runs committed.  Here those runs added
\* one client, the scenario product and n sales of it with the default form,
\* all on the first day; refresh_all has loaded the comboboxes (main.py 104).
HistoryProduct(n) ==
    [name |-> <<"P">>, purchase_price |-> 1000, weight |-> 2, default_delivery_price |-> 200,
     selling_price |-> 3000, stock_qty |-> 1 - n]

HistoryRow(i) ==
    [SaleRow(1, 1, 1, <<>>, <<>>, <<>>, <<HistoryProduct(0)>>, <<>>, strftime(Dates[1]))
        EXCEPT !.invoice_no = YearPattern(Dates[1].year) \o ZeroPad(i, SeqWidth)]

InitHistory ==
    \E n \in {0, HistoryLen} :
        /\ Clients = <<[name |-> <<"A", "l", "i">>, total_spent |-> 3000 * n, total_orders |-> n]>>
        /\ Products = <<HistoryProduct(n)>>
        /\ Sales = [i \in 1..n |-> HistoryRow(i)]
        /\ Fees = <<>>
        /\ disk = [Clients |-> Clients, Products |-> Products, Sales |-> Sales, Fees |-> Fees]
        /\ today = 1
        /\ client_map = [a \in Apps |-> {1}]
        /\ product_map = [a \in Apps |-> {1}]
        /\ pending = [a \in Apps |-> NoSale]
        /\ result = [a \in Apps |-> Outcome("", "", TRUE)]
        /\ stock_created = <<1>>
        /\ sales_at_start = n
        /\ delivery_entries = [i \in 1..n |-> <<>>]
        /\ entries = [a \in Apps |-> NoEntries]
        /\ sales_tree = [a \in Apps |-> IF a = MainApp THEN [k \in 1..n |-> n + 1 - k] ELSE <<>>]
        /\ export_file = [a \in Apps |-> NoFile]
        /\ date_error = [a \in Apps |-> ""]
        /\ dashboard = [a \in Apps |-> DashboardOf(IF a = MainApp THEN Sales ELSE <<>>, Dates[1])]

HistoryForms == {DefaultForm, [qty |-> <<"2">>, delivery |-> <<"1", "5", "0">>, status |-> <<>>]}

NextHistory ==
    \/ Tick
    \/ \E name \in NameTexts : add_client(MainApp, name)
    \/ refresh_sales(MainApp)
    \/ \E ck \in ClientKeys, pk \in ProductKeys, f \in HistoryForms : add_sale(MainApp, ck, pk, f, 0)

SpecHistory == InitHistory /\ [][NextHistory]_vars

\* ---- two apps on one dzair.db ----
NextConc ==
    \/ Tick
    \/ \E a \in Apps : add_client(a, <<"A", "l", "i">>)
    \/ \E a \in Apps : add_product(a, ScenarioProduct)
    \/ \E a \in Apps : refresh_sales(a)
    \/ \E a \in Apps, ck \in ClientKeys, pk \in ProductKeys : add_sale_read(a, ck, pk, DefaultForm)
    \/ \E a \in Apps : add_sale_write(a)

SpecConc == Init /\ [][NextConc]_vars

\* ---- one app, its Dashboard tab ----
DashForms == {DefaultForm, [qty |-> <<"2">>, delivery |-> <<"1", "5", "0">>, status |-> <<>>]}

DashProducts == {ScenarioProduct,
                 [name |-> <<"Q">>, purchase |-> Txt(4000), weight |-> Txt(1), delivery |-> <<>>,
                  selling |-> Txt(1000), stock |-> <<>>]}

NextDash ==
    \/ Tick
    \/ add_client(MainApp, <<"A", "l", "i">>)
    \/ \E f \in DashProducts : add_product(MainApp, f)
    \/ refresh_sales(MainApp)
    \/ \E ck \in ClientKeys, pk \in ProductKeys, f \in DashForms : add_sale(MainApp, ck, pk, f, 0)
    \/ \E lag \in UtcLags : refresh_dashboard(MainApp, lag)

SpecDash == Init /\ [][NextDash]_vars

\* ---- one app, its toolbar filters, Sales tab and export ----
Day1 == strftime(Dates[1])
Day2 == strftime(Dates[2])

EntryForms ==
    { NoEntries,
      [search |-> <<"q">>, date_from |-> <<>>, date_to |-> <<>>],
      [search |-> <<"b", "o", "B">>, date_from |-> <<>>, date_to |-> <<>>],
      [search |-> <<"d", "e", "l", "i", "v">>, date_from |-> <<>>, date_to |-> <<>>],
      [search |-> <<"_">>, date_from |-> <<>>, date_to |-> <<>>],
      [search |-> <<>>, date_from |-> Day2, date_to |-> <<>>],
      [search |-> <<>>, date_from |-> <<" ">>, date_to |-> <<" ">> \o Day1 \o <<" ">>],
      [search |-> <<"2", "0", "2", "5">>, date_from |-> Day1, date_to |-> Day2],
      [search |-> <<>>, date_from |-> <<"2", "0", "2", "5", "-", "0", "2", "-", "3", "0">>, date_to |-> <<>>],
      [search |-> <<"Q">>, date_from |-> Day1,
       date_to |-> <<"1", "4", "/", "0", "1", "/", "2", "0", "2", "5">>],
      [search |-> <<>>, date_from |-> <<"x">>, date_to |-> <<"y">>] }

\* The app is started on a dzair.db to which earlier runs added the clients Ali
\* and Bob and the products P and Q (main.py 48-64, 104).
InitList ==
    /\ Clients = << [name |-> <<"A", "l", "i">>, total_spent |-> 0, total_orders |-> 0],
                    [name |-> <<"B", "o", "b">>, total_spent |-> 0, total_orders |-> 0] >>
    /\ Products = << HistoryProduct(0),
                     [name |-> <<"Q">>, purchase_price |-> 4000, weight |-> 1,
                      default_delivery_price |-> 0, selling_price |-> 1000, stock_qty |-> 0] >>
    /\ Sales = <<>>
    /\ Fees = <<>>
    /\ disk = [Clients |-> Clients, Products |-> Products, Sales |-> Sales, Fees |-> Fees]
    /\ today = 1
    /\ client_map = [a \in Apps |-> IF a = MainApp THEN {1, 2} ELSE {}]
    /\ product_map = [a \in Apps |-> IF a = MainApp THEN {1, 2} ELSE {}]
    /\ pending = [a \in Apps |-> NoSale]
    /\ result = [a \in Apps |-> Outcome("", "", TRUE)]
    /\ stock_created = <<1, 0>>
    /\ sales_at_start = 0
    /\ delivery_entries = <<>>
    /\ entries = [a \in Apps |-> NoEntries]
    /\ sales_tree = [a \in Apps |-> <<>>]
    /\ export_file = [a \in Apps |-> NoFile]
    /\ date_error = [a \in Apps |-> ""]
    /\ dashboard = [a \in Apps |-> DashboardOf(<<>>, Dates[1])]

\* the sales the user enters: client, product and the sale form
ListSales ==
    { [ck |-> 1, pk |-> 1, f |-> DefaultForm],
      [ck |-> 2, pk |-> 1, f |-> [qty |-> <<>>, delivery |-> <<>>, status |-> Delivered]],
      [ck |-> 1, pk |-> 2, f |-> DefaultForm] }

NextList ==
    \/ Tick
    \/ \E e \in EntryForms : type_filters(MainApp, e)
    \/ refresh_sales(MainApp)
    \/ \E chosen \in BOOLEAN : export_filtered_excel(MainApp, chosen)
    \/ \E s \in ListSales : add_sale(MainApp, s.ck, s.pk, s.f, 0)

SpecList == InitList /\ [][NextList]_vars

\* ---- one app started on a dzair.db whose invoice numbers it did not write ----
MaxStored == 2

\* invoice numbers of rows that were imported or edited outside the program
StoredInvoices ==
    { Prefix \o <<"-", "2", "0", "2", "4", "-", "0", "0", "1">>,
      Prefix \o <<"-", "2", "0", "2", "4", "-", "a", "b", "c">>,
      Prefix \o <<"-", "2", "0", "2", "4", "-">>,
      Prefix \o <<"-", "2", "0", "2", "4", "-", "1", "x">>,
      <<"d", "z", "a", "i", "r", "-", "2", "0", "2", "4", "-", "0", "4", "1">>,
      Prefix \o <<"-", "2", "0", "2", "5", "-", "0", "1", "2">>,
      <<"I", "N", "V", "-", "9">> }

\* the stored histories: up to MaxStored rows, no invoice number twice (UNIQUE)
StoredHistories ==
    {h \in UNION {[1..n -> StoredInvoices] : n \in 0..MaxStored} :
        \A i, j \in DOMAIN h : i # j => h[i] # h[j]}

InitStored ==
    \E h \in StoredHistories :
        LET n == Len(h) IN
        /\ Clients = <<[name |-> <<"A", "l", "i">>, total_spent |-> 3000 * n, total_orders |-> n]>>
        /\ Products = <<HistoryProduct(n)>>
        /\ Sales = [i \in 1..n |-> [HistoryRow(i) EXCEPT !.invoice_no = h[i]]]
        /\ Fees = <<>>
        /\ disk = [Clients |-> Clients, Products |-> Products, Sales |-> Sales, Fees |-> Fees]
        /\ today = 1
        /\ client_map = [a \in Apps |-> IF a = MainApp THEN {1} ELSE {}]
        /\ product_map = [a \in Apps |-> IF a = MainApp THEN {1} ELSE {}]
        /\ pending = [a \in Apps |-> NoSale]
        /\ result = [a \in Apps |-> Outcome("", "", TRUE)]
        /\ stock_created = <<1>>
        /\ sales_at_start = n
        /\ delivery_entries = [i \in 1..n |-> <<>>]
        /\ entries = [a \in Apps |-> NoEntries]
        /\ sales_tree = [a \in Apps |-> IF a = MainApp THEN [k \in 1..n |-> n + 1 - k] ELSE <<>>]
        /\ export_file = [a \in Apps |-> NoFile]
        /\ date_error = [a \in Apps |-> ""]
        /\ dashboard = [a \in Apps |-> DashboardOf(IF a = MainApp THEN Sales ELSE <<>>, Dates[1])]

NextStored ==
    \/ Tick
    \/ refresh_sales(MainApp)
    \/ add_sale(MainApp, 1, 1, DefaultForm, 0)

SpecStored == InitStored /\ [][NextStored]_vars

\* ---- sums over the Sales table ----
RECURSIVE OrdersOf(_, _)
OrdersOf(sales, c) ==
    IF sales = <<>> THEN 0
    ELSE OrdersOf(SubSeq(sales, 1, Len(sales) - 1), c)
         + (IF sales[Len(sales)].client_id = c THEN 1 ELSE 0)

RECURSIVE SpentOf(_, _)
SpentOf(sales, c) ==
    IF sales = <<>> THEN 0
    ELSE SpentOf(SubSeq(sales, 1, Len(sales) - 1), c)
         + (IF sales[Len(sales)].client_id = c
            THEN sales[Len(sales)].selling_price * sales[Len(sales)].quantity ELSE 0)

RECURSIVE SoldOf(_, _)
SoldOf(sales, p) ==
    IF sales = <<>> THEN 0
    ELSE SoldOf(SubSeq(sales, 1, Len(sales) - 1), p)
         + (IF sales[Len(sales)].product_id = p THEN sales[Len(sales)].quantity ELSE 0)

\* a step that inserts one Sales row
SaleInserted == Len(Sales') = Len(Sales) + 1 /\ SubSeq(Sales', 1, Len(Sales)) = Sales

NewSale == Sales'[Len(Sales')]

\* ---- C1 ----
\* the sequence number an invoice_no carries, the year of a sale's date
SeqNo(i) == int(LastSegment(Sales[i].invoice_no)).val

SaleYears == [i \in 1..Len(Sales) |-> IsoYear(Sales[i].date)]

\* the sale inserted last before sale i in the same year, 0 when i is the
\* first of its year
PrevOfYear(yr, i) ==
    IF i > 1 /\ yr[i - 1] = yr[i] THEN i - 1
    ELSE IF \E j \in 1..(i - 1) : yr[j] = yr[i]
         THEN CHOOSE j \in 1..(i - 1) : yr[j] = yr[i] /\ \A k \in (j + 1)..(i - 1) : yr[k] # yr[i]
         ELSE 0

\* C1: the first sale of a calendar year carries sequence number 1 and every
\* later sale of that year the number of the year's previous sale plus 1,
\* whatever the sales of other years.
C1_SequentialPerYear ==
    LET yr == SaleYears IN
    \A i \in 1..Len(Sales) :
        LET j == PrevOfYear(yr, i) IN
        SeqNo(i) = IF j = 0 THEN 1 ELSE SeqNo(j) + 1

\* a year with 1000 sales, then the first sale of the next year
C1_Witness ==
    /\ Len(Sales) = HistoryLen + 2
    /\ SeqNo(HistoryLen + 1) = HistoryLen + 1
    /\ IsoYear(Sales[HistoryLen + 1].date) = 2024
    /\ IsoYear(Sales[HistoryLen + 2].date) = 2025
    /\ SeqNo(HistoryLen + 2) = 1

\* ---- C2 ----
\* C2: no two Sales rows have the same invoice_no, and every invoice_no is
\* DZAIR-YYYY-NNN with YYYY the four digits of the year of the sale's date and
\* NNN the sale's sequence number in the year, written in full: zero-padded to
\* three digits, and its own decimal digits from 1000 on.
WellFormed(yr, i) ==
    LET inv == Sales[i].invoice_no
        nnn == LastSegment(inv)
        j == PrevOfYear(yr, i)
    IN /\ Len(Dec(yr[i])) = 4
       /\ inv = Prefix \o <<"-">> \o Dec(yr[i]) \o <<"-">> \o nnn
       /\ AllDigits(nnn)
       /\ Len(nnn) >= 3
       /\ DigitsVal(nnn) = (IF j = 0 THEN 1 ELSE DigitsVal(LastSegment(Sales[j].invoice_no)) + 1)
       /\ Len(nnn) > 3 => nnn = Dec(DigitsVal(nnn))

C2_UniqueWellFormed ==
    LET yr == SaleYears IN
    /\ Cardinality({Sales[i].invoice_no : i \in 1..Len(Sales)}) = Len(Sales)
    /\ \A i \in 1..Len(Sales) : WellFormed(yr, i)

\* the year's sequence has passed 999: DZAIR-2024-1000 and DZAIR-2024-1001
C2_Witness ==
    /\ Len(Sales) = HistoryLen + 2
    /\ LastSegment(Sales[Len(Sales) - 1].invoice_no) = <<"1", "0", "0", "0">>
    /\ LastSegment(Sales[Len(Sales)].invoice_no) = <<"1", "0", "0", "1">>

\* ---- C3 ----
\* C3: in every reachable state each client's total_orders is the number of
\* Sales rows of that client and its total_spent the sum of selling_price *
\* quantity over them; a step that inserts a sale raises that client's
\* total_spent by selling_price * quantity and its total_orders by 1 and
\* leaves every other client as it was.
AccumulatorsMatchSales ==
    \A c \in DOMAIN Clients :
        /\ Clients[c].total_orders = OrdersOf(Sales, c)
        /\ Clients[c].total_spent = SpentOf(Sales, c)

SaleRaisesOneClient ==
    SaleInserted =>
        /\ NewSale.client_id \in DOMAIN Clients
        /\ \A c \in DOMAIN Clients :
              IF c = NewSale.client_id
              THEN /\ Clients'[c].total_spent
                        = Clients[c].total_spent + NewSale.selling_price * NewSale.quantity
                   /\ Clients'[c].total_orders = Clients[c].total_orders + 1
              ELSE Clients'[c] = Clients[c]

StockMatchesSales ==
    \A p \in DOMAIN Products :
        Products[p].stock_qty = stock_created[p] - SoldOf(Sales, p)

SaleLowersOneStock ==
    SaleInserted =>
        /\ NewSale.product_id \in DOMAIN Products
        /\ \A p \in DOMAIN Products :
              IF p = NewSale.product_id
              THEN Products'[p] = [Products[p] EXCEPT !.stock_qty = @ - NewSale.quantity]
              ELSE Products'[p] = Products[p]

Rejected(o) == o.title \in {"Validation", "Error"}

UnknownKeysRejected ==
    \A a \in Apps :
        (result'[a] # result[a] /\ ~result'[a].found)
            => /\ Rejected(result'[a])
               /\ UNCHANGED <<Clients, Products, Sales, disk>>

C6_NotFoundLeavesLedger == [][UnknownKeysRejected]_vars

\* a ledger with a sale, then an add_sale for a client that does not exist
C6_Witness ==
    /\ Len(Sales) >= 1
    /\ Len(Clients) < MaxClients
    /\ result[MainApp] = Outcome("Validation", "Select valid client and product", FALSE)

\* ---- C5 ----
\* C5: in every committed state of dzair.db the Sales rows, the client
\* accumulators and the product stocks agree: no sale is committed without its
\* client update and its stock decrement, and no update without its sale.
C5_AllOrNothing ==
    /\ \A c \in DOMAIN disk.Clients :
          /\ disk.Clients[c].total_orders = OrdersOf(disk.Sales, c)
          /\ disk.Clients[c].total_spent = SpentOf(disk.Sales, c)
    /\ \A p \in DOMAIN disk.Products :
          disk.Products[p].stock_qty = stock_created[p] - SoldOf(disk.Sales, p)

\* ---- C7 ----
\* C7: every persisted sale has a quantity of at least 1, so no sale leaves a
\* product with more stock than it was inserted with.
C7_QuantityPositive ==
    /\ \A i \in 1..Len(Sales) : Sales[i].quantity >= 1
    /\ \A p \in DOMAIN Products : Products[p].stock_qty <= stock_created[p]

\* ---- C8 ----
\* C8: the delivery_price of a sale is the Delivery entry when one was given
\* (0 included) and the product's default otherwise, and a given entry is
\* never negative.
DeliveryResolved(i) ==
    IF delivery_entries[i] = <<>>
    THEN Sales[i].delivery_price = Products[Sales[i].product_id].default_delivery_price
    ELSE Sales[i].delivery_price = float(delivery_entries[i]).val

C8_DeliveryOverride ==
    \A i \in 1..Len(Sales) :
        /\ DeliveryResolved(i)
        /\ delivery_entries[i] # <<>> => Sales[i].delivery_price >= 0

\* the part of C8 the code keeps: which delivery price is stored
C8_DeliveryResolved == \A i \in 1..Len(Sales) : DeliveryResolved(i)

\* ---- C9 ----
\* C9: every persisted sale has tot_livraison = weight * 50 + delivery_price,
\* p_fayda = (selling_price - tot_livraison) - purchase_price and fayda_safia =
\* p_fayda - 500 over its own stored fields, negative values included (the
\* product 1000/2/200/3000 without override gives 300, 1700, 1200), and no
\* step changes a row that is in Sales.
DerivedFieldsHold ==
    \A i \in 1..Len(Sales) :
        LET r == Sales[i] IN
        /\ r.tot_livraison = r.weight * 50 + r.delivery_price
        /\ r.p_fayda = (r.selling_price - r.tot_livraison) - r.purchase_price
        /\ r.fayda_safia = r.p_fayda - 500
        /\ (r.purchase_price = 1000 /\ r.weight = 2 /\ r.delivery_price = 200 /\ r.selling_price = 3000)
              => (r.tot_livraison = 300 /\ r.p_fayda = 1700 /\ r.fayda_safia = 1200)

RowsKept == Len(Sales') >= Len(Sales) /\ \A i \in 1..Len(Sales) : Sales'[i] = Sales[i]

C9_DerivedFields == DerivedFieldsHold /\ [][DerivedFieldsHold' /\ RowsKept]_vars

\* the scenario of the specification followed by a sale at a loss
C9_Witness ==
    /\ Len(Sales) = 2
    /\ Sales[1].quantity = 1 /\ delivery_entries[1] = <<>>
    /\ Sales[1].tot_livraison = 300 /\ Sales[1].p_fayda = 1700 /\ Sales[1].fayda_safia = 1200
    /\ Sales[2].p_fayda < 0 /\ Sales[2].fayda_safia < Sales[2].p_fayda

\* ---- C10 ----
\* C10: no add_sale ends in the store's uniqueness error: a collision of
\* invoice_no is caught and the insert retried with a new sequence number.
C10_CollisionRetried == \A a \in Apps : result[a].title # "IntegrityError"

\* ---- C11 ----
RECURSIVE TotalOf(_, _)
TotalOf(sales, col) ==
    IF sales = <<>> THEN 0
    ELSE TotalOf(SubSeq(sales, 1, Len(sales) - 1), col) + sales[Len(sales)][col]

DashboardShown(a) == dashboard'[a] # dashboard[a]

\* C11: whenever the dashboard is refreshed it shows the number of Sales rows,
\* the sum of fayda_safia over all sales and the sum of tot_livraison over all
\* sales; with no sale the three are 0.
DashboardTotalsNet ==
    \A a \in Apps : DashboardShown(a) =>
        /\ dashboard'[a].lbl_sales = Dec(Len(Sales'))
        /\ dashboard'[a].lbl_profit = Fmt2f(TotalOf(Sales', "fayda_safia"))
        /\ dashboard'[a].lbl_delivery = Fmt2f(TotalOf(Sales', "tot_livraison"))

C11_DashboardTotals == [][DashboardTotalsNet]_vars

\* what the dashboard does show: the count, the sum of p_fayda (the profit
\* before the fixed deduction) and the sum of tot_livraison, and zeros on a
\* ledger without a sale
EmptyLedgerZeros ==
    Sales = <<>> =>
        \A a \in Apps : /\ dashboard[a].lbl_sales = <<"0">>
                         /\ dashboard[a].lbl_profit = <<"0", ".", "0", "0">>
                         /\ dashboard[a].lbl_delivery = <<"0", ".", "0", "0">>
                         /\ dashboard[a].rows = <<>>

DashboardTotalsGross ==
    \A a \in Apps : DashboardShown(a) =>
        /\ dashboard'[a].lbl_sales = Dec(Len(Sales'))
        /\ dashboard'[a].lbl_profit = Fmt2f(TotalOf(Sales', "p_fayda"))
        /\ dashboard'[a].lbl_delivery = Fmt2f(TotalOf(Sales', "tot_livraison"))

C11_GrossTotals == EmptyLedgerZeros /\ [][EmptyLedgerZeros' /\ DashboardTotalsGross]_vars

\* ---- C14 ----
\* the entries of the days d - k, ..., d that have a sale, oldest first, with the
\* sum of col and the number of sales of each day
RECURSIVE DailyFrom(_, _, _, _)
DailyFrom(sales, d, k, col) ==
    IF k < 0 THEN <<>>
    ELSE LET day == strftime(MinusDays(d, k))
             g == SelectSeq(sales, LAMBDA r : r.date = day)
         IN (IF g = <<>> THEN <<>>
             ELSE <<[date |-> day, profit |-> TotalOf(g, col), cnt |-> Len(g)]>>)
            \o DailyFrom(sales, d, k - 1, col)

\* C14: whenever the dashboard is refreshed its chart rows are one entry per
\* date among today and the 13 days before it that has a sale, with the sum of
\* fayda_safia and the number of that date's sales, oldest date first, and no
\* entry for any other date.
DailyNetOfWindow ==
    \A a \in Apps : DashboardShown(a) =>
        dashboard'[a].rows = DailyFrom(Sales', Dates[today'], WindowBack, "fayda_safia")

C14_DailyProfit == [][DailyNetOfWindow]_vars

\* what the chart rows are: sums of p_fayda, over the dates from 13 days before
\* the UTC date on
DailyGrossOfUtcWindow ==
    \A a \in Apps : DashboardShown(a) =>
        \E lag \in UtcLags :
            dashboard'[a].rows
                = DailyFrom(Sales', Dates[today'], WindowBack + lag, "p_fayda")

C14_GrossUtcWindow == [][DailyGrossOfUtcWindow]_vars

\* ---- C12 ----
\* s occurs in text, ASCII letters in either case
Contains(text, s) ==
    \E i \in 0..(Len(text) - Len(s)) : \A k \in 1..Len(s) : lower(text[i + k]) = lower(s[k])

\* year, month and day of a YYYY-MM-DD text
DatePart(s) == <<DigitsVal(SubSeq(s, 1, 4)), DigitsVal(SubSeq(s, 6, 7)), DigitsVal(SubSeq(s, 9, 10))>>

DateLE(x, y) ==
    \/ x[1] < y[1]
    \/ x[1] = y[1] /\ x[2] < y[2]
    \/ x[1] = y[1] /\ x[2] = y[2] /\ x[3] <= y[3]

\* sale i passes every filter of the entries e that is not left empty
Satisfies(i, e, clients, products, sales) ==
    LET s == strip(e.search)
        df == strip(e.date_from)
        dt == strip(e.date_to)
    IN /\ s # <<>> => \/ Contains(clients[sales[i].client_id].name, s)
                      \/ Contains(products[sales[i].product_id].name, s)
                      \/ Contains(sales[i].invoice_no, s)
                      \/ Contains(sales[i].status, s)
       /\ df # <<>> => DateLE(DatePart(df), DatePart(sales[i].date))
       /\ dt # <<>> => DateLE(DatePart(sales[i].date), DatePart(dt))

\* l holds the sale_ids that pass the filters, each once, the highest first
IsExactList(l, e, clients, products, sales) ==
    /\ \A k \in 1..(Len(l) - 1) : l[k] > l[k + 1]
    /\ {l[k] : k \in 1..Len(l)} = {i \in 1..Len(sales) : Satisfies(i, e, clients, products, sales)}

Listed(a) == sales_tree'[a] # sales_tree[a]

Exported(a) == export_file'[a] # export_file[a]

\* C12: whenever the Sales tab is filled or the filtered sales are exported,
\* the rows are exactly the sales whose client name, product name, invoice
\* number or status contains the search text (in either case) and whose date
\* is on or after the From date and on or before the To date, an empty entry
\* excluding nothing, ordered by sale_id descending.
ListedExactly ==
    \A a \in Apps :
        /\ Listed(a) => IsExactList(sales_tree'[a], entries'[a], Clients', Products', Sales')
        /\ Exported(a) => IsExactList(export_file'[a].rows, entries'[a], Clients', Products', Sales')

C12_ListFiltered == [][ListedExactly]_vars

\* the same for every search text without the characters % and _, which LIKE
\* takes as wildcards
NoWildcard(s) == \A k \in 1..Len(s) : s[k] \notin {"%", "_"}

ListedExactlyUnlessWildcard ==
    \A a \in Apps :
        NoWildcard(entries'[a].search) =>
            /\ Listed(a) => IsExactList(sales_tree'[a], entries'[a], Clients', Products', Sales')
            /\ Exported(a) => IsExactList(export_file'[a].rows, entries'[a], Clients', Products', Sales')

C12_ListFilteredPlainText == [][ListedExactlyUnlessWildcard]_vars

\* ---- C13 ----
\* the texts YYYY-MM-DD of the days of the years the model runs through
CalendarTexts ==
    UNION { {strftime([year |-> y, month |-> m, day |-> d]) : d \in 1..DaysIn(y, m)} :
            y \in {Dates[i].year : i \in 1..Len(Dates)}, m \in 1..12 }

\* the bound of the entries e that is given and is no date, From before To
MalformedBound(e) ==
    IF strip(e.date_from) # <<>> /\ strip(e.date_from) \notin CalendarTexts THEN "From"
    ELSE IF strip(e.date_to) # <<>> /\ strip(e.date_to) \notin CalendarTexts THEN "To"
    ELSE ""

\* C13: while the From or the To entry holds a text that is no calendar date,
\* no listing and no export replaces the rows of the Sales tab or the exported
\* file, whatever the other entries hold, and the Date Error box a listing or
\* an export ends in names the malformed bound.
MalformedBoundFails ==
    \A a \in Apps :
        LET bad == MalformedBound(entries[a]) IN
        /\ (bad # "" /\ entries'[a] = entries[a])
              => /\ sales_tree'[a] = sales_tree[a]
                 /\ export_file'[a] = export_file[a]
        /\ date_error'[a] # date_error[a]
              => date_error'[a] = (IF bad = "From" THEN "From date must be YYYY-MM-DD"
                                  ELSE IF bad = "To" THEN "To date must be YYYY-MM-DD"
                                  ELSE "")

C13_MalformedDateFails == [][MalformedBoundFails]_vars

\* a From date and a search text that are fine beside a To entry that is no
\* date: the Date Error box names To, the rows listed and exported before stay
C13_Witness ==
    /\ strip(entries[MainApp].search) # <<>>
    /\ strip(entries[MainApp].date_from) \in CalendarTexts
    /\ MalformedBound(entries[MainApp]) = "To"
    /\ date_error[MainApp] = "To date must be YYYY-MM-DD"
    /\ Len(sales_tree[MainApp]) = 2
    /\ Len(Sales) = 2
    /\ export_file[MainApp].rows # <<>>

\* ---- C15 ----
\* app a has read its invoice number and not inserted its sale
Holds(a) == pending[a].active /\ UniqueOK(Sales, pending[a].row)

\* C15: the sequencer's read and the INSERT of add_sale are two steps, and the
\* read reserves nothing: for as long as a caller has not inserted its sale
\* the sequencer returns the number that caller holds to any other caller of
\* the same year, so that two callers hold the same number before either
\* has inserted.
C15_ReadInsertNotAtomic ==
    \A a \in Apps :
        Holds(a) => generate_invoice_no(Sales, pending[a].row.date) = pending[a].row.invoice_no

\* both apps hold the same number after one sale, and neither has inserted
C15_Witness ==
    /\ Holds("a1") /\ Holds("a2")
    /\ pending["a1"].row.invoice_no = pending["a2"].row.invoice_no
    /\ pending["a1"].row.date = pending["a2"].row.date
    /\ Len(Sales) = 1

\* ---- C16 ----
\* the Sales rows whose invoice_no matches DZAIR-<year>-%
OfYear(year) == {i \in 1..Len(Sales) : Like(Sales[i].invoice_no, YearPattern(year) \o <<"%">>)}

\* C16: on every stored history and for every reference date the sequencer
\* returns an identifier DZAIR-<year>-<digits>, and it returns sequence 001
\* when the last inserted row of that year's pattern ends in a segment that
\* is not a number.
C16_SequencerNeverFails ==
    \A k \in 1..Len(Dates) :
        LET yp == YearPattern(Dates[k].year)
            inv == generate_invoice_no(Sales, strftime(Dates[k]))
            nnn == SubSeq(inv, Len(yp) + 1, Len(inv))
            m == OfYear(Dates[k].year)
            last == Sales[CHOOSE i \in m : \A j \in m : j <= i].invoice_no
        IN /\ Len(inv) > Len(yp)
           /\ SubSeq(inv, 1, Len(yp)) = yp
           /\ AllDigits(nnn)
           /\ DigitsVal(nnn) >= 1
           /\ (m # {} /\ ~AllDigits(LastSegment(last))) => nnn = <<"0", "0", "1">>

\* a sale added after a row that ends in "abc" got 001, and the next one 002
C16_Witness ==
    /\ Len(Sales) = sales_at_start + 2
    /\ sales_at_start >= 1
    /\ LastSegment(Sales[sales_at_start].invoice_no) = <<"a", "b", "c">>
    /\ Sales[sales_at_start + 1].invoice_no = YearPattern(2024) \o <<"0", "0", "1">>
    /\ Sales[sales_at_start + 2].invoice_no = YearPattern(2024) \o <<"0", "0", "2">>
====
